---- MODULE Spec2Model ----
(***************************************************************************)
(* A model of goscheme (src/scheme.go): the value model (empty, cons,      *)
(* symbol, number, boolean, builtin), the reader (lexState, read,          *)
(* readSeq), the evaluator (eval, evalApplication, get1, get3) and the     *)
(* builtins (builtinPlus, builtinMul).                                     *)
(*                                                                         *)
(* Go strings are sequences of one-character strings.  A Go panic is an    *)
(* outcome of kind "panic" carrying the message of the panic call.         *)
(* int64 is modelled as a two's complement integer of IntBits bits: TLC's  *)
(* integers are 32 bits wide, so the width is scaled and every place that  *)
(* depends on it (ParseInt's range check, the wrap of + and * ) uses        *)
(* IntBits.                                                                *)
(***************************************************************************)
EXTENDS Integers, Sequences, FiniteSets, TLC

VARIABLES
  \* the reader run: the text, read's result, the text printed from it, and
  \* the result of reading that text again
  rpc, input, rd, printed, rd2,
  \* the evaluator run: the form given to eval, the call in progress (ctl),
  \* the suspended eval and evalApplication calls (stack), the paths of the
  \* forms eval was entered with, in order (log), the values the eval calls
  \* returned (rets), the calls of builtins (calls), and eval's outcome
  epc, form, ctl, stack, log, rets, calls, result,
  \* a direct call of a builtin: its name, the arguments and the outcome
  bpc, bname, bargs, bres,
  \* a comparison a.equal(other) and its outcome
  qpc, eqA, eqOther, eqRes

\* ------------------------------------------------------------------ bounds
\* longest input text given to read
MaxLen == 5
\* width of the model's int64
IntBits == 8
\* most operands after the head of a generated list form
MaxOperands == 4
\* most arguments given to a builtin called directly
MaxArgs == 3

\* ------------------------------------------------------------- value model
Pow2(n) == 2 ^ n
MinInt64 == 0 - Pow2(IntBits - 1)
MaxInt64 == Pow2(IntBits - 1) - 1

\* a nil interface value (the val returned beside an error)
Nil == [t |-> "nil"]
empty == [t |-> "empty"]
cons(car, cdr) == [t |-> "cons", car |-> car, cdr |-> cdr]
symbol(name) == [t |-> "symbol", name |-> name]
number(i) == [t |-> "number", i |-> i]
boolean(b) == [t |-> "boolean", b |-> b]
builtin(name) == [t |-> "builtin", fname |-> name]

\* the type switch `case seq`: the types with empty(), first() and rest()
IsSeq(v) == v.t \in {"empty", "cons"}
\* the type assertion vf.(function): the types with call()
IsFunction(v) == v.t = "builtin"

\* outcomes of a Go call that may panic
Value(v) == [k |-> "value", v |-> v, msg |-> "", about |-> <<>>]
\* a panic whose message ends in the text `about` (the %s of the Sprintf)
PanicAbout(msg, about) == [k |-> "panic", v |-> Nil, msg |-> msg, about |-> about]
Panic(msg) == PanicAbout(msg, <<>>)

\* panic messages of the program
EmptyAccessFirst == "first called on empty"
EmptyAccessRest == "rest called on empty"
WrongArity == "Too many items in seq"
UnboundSymbol == "unbound"
NotAFunction == "cannot apply non-function"
CannotEval == "cannot eval"
TypeMismatchAdd == "cannot add non-number"
TypeMismatchMul == "cannot multiply non-number"
IncomparableFunctions == "you should not compare functions!"
BeyondEOS == "Advancing beyond EOS"

\* error values of the reader
UnexpectedEndOfInput == "EOS"
InvalidBooleanLiteral == "No boolean"
\* "unexpected )" with the quotes around the parenthesis left out
UnmatchedCloseParen == "unexpected )"

first(s) == IF s.t = "empty" THEN Panic(EmptyAccessFirst) ELSE Value(s.car)
rest(s) == IF s.t = "empty" THEN Panic(EmptyAccessRest) ELSE Value(s.cdr)

\* ---------------------------------------------------------------- printing
Digits == <<"0", "1", "2", "3", "4", "5", "6", "7", "8", "9">>

RECURSIVE FormatUint(_)
FormatUint(n) ==
  IF n < 10 THEN <<Digits[n + 1]>>
  ELSE FormatUint(n \div 10) \o <<Digits[(n % 10) + 1]>>

\* fmt.Sprintf("%v", n.i)
FormatInt(i) == IF i < 0 THEN <<"-">> \o FormatUint(0 - i) ELSE FormatUint(i)

RECURSIVE pr(_), prRest(_)
\* the loop of cons.pr over the rest of the list
prRest(s) ==
  IF s.t = "empty" THEN <<>>
  ELSE <<" ">> \o pr(s.car) \o prRest(s.cdr)

pr(v) ==
  CASE v.t = "empty" -> <<"(", ")">>
    [] v.t = "cons" -> <<"(">> \o pr(v.car) \o prRest(v.cdr) \o <<")">>
    [] v.t = "symbol" -> v.name
    [] v.t = "number" -> FormatInt(v.i)
    [] v.t = "boolean" -> IF v.b THEN <<"#", "t">> ELSE <<"#", "f">>
    [] v.t = "builtin" ->
         <<"#", "<", "f", "u", "n", "c", "t", "i", "o", "n", ":">> \o v.fname \o <<">">>

\* ---------------------------------------------------------------- equality
RECURSIVE equal(_, _)
equal(a, other) ==
  CASE a.t = "empty" -> Value(other.t = "empty")
    [] a.t = "cons" ->
         IF other.t # "cons" THEN Value(FALSE)
         ELSE LET l == equal(a.car, other.car) IN
              IF l.k = "panic" \/ ~l.v THEN l
              ELSE equal(a.cdr, other.cdr)
    [] a.t = "symbol" ->
         IF other.t # "symbol" THEN Value(FALSE) ELSE Value(a.name = other.name)
    [] a.t = "number" ->
         IF other.t # "number" THEN Value(FALSE) ELSE Value(a.i = other.i)
    [] a.t = "boolean" ->
         IF other.t # "boolean" THEN Value(FALSE) ELSE Value(a.b = other.b)
    [] a.t = "builtin" -> Panic(IncomparableFunctions)

\* isTrue with the number 0 taken as false too
isTrueZeroIsFalse(v) ==
  IF v.t = "boolean" THEN v.b ELSE IF v.t = "number" THEN v.i # 0 ELSE TRUE

isTrue(v) == IF v.t = "boolean" THEN v.b ELSE TRUE

\* ------------------------------------------------------------------ reader
lexState(s, pos) == [s |-> s, pos |-> pos]
isEOS(ls) == ls.pos >= Len(ls.s)
\* both panic when isEOS; the callers below test the outcome
advance(ls) ==
  IF isEOS(ls) THEN Panic(BeyondEOS) ELSE Value(lexState(ls.s, ls.pos + 1))
current(ls) ==
  IF isEOS(ls) THEN Panic(BeyondEOS) ELSE Value(ls.s[ls.pos + 1])

\* unicode.IsSpace on a byte; the bytes 0x0B, 0x85 and 0xA0, spaces too, are
\* in none of the texts read here
IsSpace(c) == c \in {" ", "\t", "\n", "\r", "\f"}

\* the predicate read gives to skipWhile for the token
IsTokenChar(c) == ~IsSpace(c) /\ c # "(" /\ c # ")"

\* pred(c), pred being one of the two function literals given to skipWhile
Holds(pred, c) == IF pred = "IsSpace" THEN IsSpace(c) ELSE IsTokenChar(c)

\* the loop of skipWhile stops at the first position from ls.pos on that is
\* the end of the text or holds a character pred rejects
skipWhile(ls, pred) ==
  LET stops == {j \in ls.pos..Len(ls.s) :
                  isEOS(lexState(ls.s, j)) \/ ~Holds(pred, current(lexState(ls.s, j)).v)}
  IN  lexState(ls.s, CHOOSE j \in stops : \A i \in stops : j <= i)

skipWS(ls) == skipWhile(ls, "IsSpace")

getToken(start, end) == SubSeq(start.s, start.pos + 1, end.pos)

DigitVal(c) == CHOOSE d \in 0..9 : Digits[d + 1] = c
IsDigit(c) == \E d \in 0..9 : Digits[d + 1] = c

RECURSIVE ParseUint(_, _)
ParseUint(s, acc) ==
  IF s = <<>> THEN acc ELSE ParseUint(Tail(s), acc * 10 + DigitVal(Head(s)))

\* strconv.ParseInt(s, 10, 64): an optional sign, then decimal digits only,
\* and the value in the range of int64; ok = FALSE is a non-nil err
ParseInt(s) ==
  LET signed == s # <<>> /\ Head(s) \in {"+", "-"}
      neg == s # <<>> /\ Head(s) = "-"
      digits == IF signed THEN Tail(s) ELSE s
      syntax == digits # <<>> /\ \A j \in 1..Len(digits) : IsDigit(digits[j])
      un == IF syntax THEN ParseUint(digits, 0) ELSE 0
      n == IF neg THEN 0 - un ELSE un
  IN  IF ~syntax THEN [ok |-> FALSE, n |-> 0]
      ELSE IF n < MinInt64 \/ n > MaxInt64 THEN [ok |-> FALSE, n |-> 0]
      ELSE [ok |-> TRUE, n |-> n]

\* results of read and readSeq: (val, lexState, error), or a panic
ReadOk(v, ls) == [k |-> "value", v |-> v, ls |-> ls, err |-> "", msg |-> ""]
ReadErr(ls, err) == [k |-> "error", v |-> Nil, ls |-> ls, err |-> err, msg |-> ""]
ReadPanic(msg) == [k |-> "panic", v |-> Nil, ls |-> Nil, err |-> "", msg |-> msg]

\* the `#` branch without the advance past the `t` or `f`
readBooleanNoAdvance(ls0) ==
  LET ls == advance(ls0).v IN
  IF isEOS(ls) THEN ReadErr(ls, UnexpectedEndOfInput)
  ELSE LET c == current(ls).v IN
       IF c = "t" THEN ReadOk(boolean(TRUE), ls)
       ELSE IF c = "f" THEN ReadOk(boolean(FALSE), ls)
       ELSE ReadErr(ls, InvalidBooleanLiteral)

\* the `#` branch without the test for the end of the text after the `#`
readBooleanNoEOSCheck(ls0) ==
  LET ls == advance(ls0).v
      c == current(ls)
  IN  IF c.k = "panic" THEN ReadPanic(c.msg)
      ELSE IF c.v = "t" THEN ReadOk(boolean(TRUE), advance(ls).v)
      ELSE IF c.v = "f" THEN ReadOk(boolean(FALSE), advance(ls).v)
      ELSE ReadErr(advance(ls).v, InvalidBooleanLiteral)

\* the `#` branch of read, entered with ls on the `#`
readBoolean(ls0) ==
  LET ls == advance(ls0).v IN
  IF isEOS(ls) THEN ReadErr(ls, UnexpectedEndOfInput)
  ELSE LET c == current(ls).v
           ls2 == advance(ls).v
       IN  IF c = "t" THEN ReadOk(boolean(TRUE), ls2)
           ELSE IF c = "f" THEN ReadOk(boolean(FALSE), ls2)
           ELSE ReadErr(ls2, InvalidBooleanLiteral)

\* the atom branch of read: the maximal token, a number or else a symbol
readAtom(ls) ==
  LET els == skipWhile(ls, "IsTokenChar")
      s == getToken(ls, els)
      num == ParseInt(s)
  IN  IF ~num.ok THEN ReadOk(symbol(s), els) ELSE ReadOk(number(num.n), els)

RECURSIVE read(_), readSeq(_)
readSeq(ls0) ==
  LET ls == skipWS(ls0)
      c == current(ls)
  IN  IF c.k = "panic" THEN ReadPanic(c.msg)
      ELSE IF c.v = ")" THEN ReadOk(empty, advance(ls).v)
      ELSE LET a == read(ls) IN
           IF a.k # "value" THEN a
           ELSE LET d == readSeq(a.ls) IN
                IF d.k # "value" THEN d
                ELSE ReadOk(cons(a.v, d.v), d.ls)

read(ls0) ==
  LET ls == skipWS(ls0) IN
  IF isEOS(ls) THEN ReadErr(ls, UnexpectedEndOfInput)
  ELSE LET c == current(ls).v IN
       IF c = "#" THEN readBoolean(ls)
       ELSE IF c = "(" THEN readSeq(advance(ls).v)
       ELSE IF c = ")" THEN ReadErr(ls, UnmatchedCloseParen)
       ELSE readAtom(ls)

\* read(s string) (val, error)
Read(s) == read(lexState(s, 0))

\* --------------------------------------------------------------- builtins
\* the int64 result of an addition or multiplication of two int64
Wrap(n) == ((n - MinInt64) % Pow2(IntBits)) + MinInt64

RECURSIVE plusLoop(_, _, _)
plusLoop(args, i, sum) ==
  IF i > Len(args) THEN Value(number(sum))
  ELSE IF args[i].t # "number" THEN PanicAbout(TypeMismatchAdd, pr(args[i]))
  ELSE plusLoop(args, i + 1, Wrap(sum + args[i].i))

builtinPlus(args) == plusLoop(args, 1, 0)

RECURSIVE mulLoop(_, _, _)
mulLoop(args, i, prod) ==
  IF i > Len(args) THEN Value(number(prod))
  ELSE IF args[i].t # "number" THEN PanicAbout(TypeMismatchMul, pr(args[i]))
  ELSE mulLoop(args, i + 1, Wrap(prod * args[i].i))

\* builtinMul with the product started at 0, as the sum is
builtinMulFromZero(args) == mulLoop(args, 1, 0)

builtinMul(args) == mulLoop(args, 1, 1)

\* names of the program as character sequences
ifName == <<"i", "f">>
quoteName == <<"q", "u", "o", "t", "e">>
plusName == <<"+">>
mulName == <<"*">>
oneName == <<"o", "n", "e">>

\* builtin.call: b.f(args), f being builtinPlus for "+" and builtinMul for "*"
call(b, args) ==
  IF b.fname = plusName THEN builtinPlus(args) ELSE builtinMul(args)

\* ------------------------------------------------------------- environment
\* the globalEnv evalTest builds; lookup returns (v, ok)
lookup(name) ==
  CASE name = oneName -> [ok |-> TRUE, v |-> number(1)]
    [] name = plusName -> [ok |-> TRUE, v |-> builtin(plusName)]
    [] name = mulName -> [ok |-> TRUE, v |-> builtin(mulName)]
    [] OTHER -> [ok |-> FALSE, v |-> Nil]

\* --------------------------------------------------------------- evaluator
get1(s) ==
  LET v == first(s) IN
  IF v.k = "panic" THEN v
  ELSE IF rest(s).v.t # "empty" THEN Panic(WrongArity)
  ELSE v

get3(s) ==
  LET v1 == first(s) IN
  IF v1.k = "panic" THEN v1 ELSE
  LET s2 == rest(s).v
      v2 == first(s2) IN
  IF v2.k = "panic" THEN v2 ELSE
  LET s3 == rest(s2).v
      v3 == first(s3) IN
  IF v3.k = "panic" THEN v3 ELSE
  LET s4 == rest(s3).v IN
  IF s4.t # "empty" THEN PanicAbout(WrongArity, pr(s4))
  ELSE Value(<<v1.v, v2.v, v3.v>>)

\* the call in progress: eval entered with form v, found at `path` in the
\* top-level form; or a value being returned to the caller; or none
Eval(v, path) == [mode |-> "eval", v |-> v, path |-> path]
Ret(v) == [mode |-> "ret", v |-> v, path |-> <<>>]
Halt == [mode |-> "halt", v |-> Nil, path |-> <<>>]

\* suspended calls.  eval of an `if` form waiting for eval(e, cond)
IfCondFrame(path, cons_, alt) ==
  [k |-> "ifCond", path |-> path, cons |-> cons_, alt |-> alt]
\* eval of an `if` form waiting for `return eval(e, cons)` or `eval(e, alt)`
IfBranchFrame(path) == [k |-> "ifBranch", path |-> path]
\* evalApplication waiting for eval(e, fform)
AppHeadFrame(path, argForms) ==
  [k |-> "appHead", path |-> path, argForms |-> argForms]
\* evalApplication waiting for eval(e, argForm), argForm = argForms.first(),
\* the i-th element of the list form
AppArgFrame(path, f, args, argForms, i) ==
  [k |-> "appArg", path |-> path, f |-> f, args |-> args,
   argForms |-> argForms, i |-> i]

\* `case boolean, number: return v`
evalSelf(v) == Value(v)

\* `case symbol`: e.lookup(v), or panic
evalSymbol(v) ==
  LET r == lookup(v.name) IN
  IF ~r.ok THEN PanicAbout(UnboundSymbol, v.name) ELSE Value(r.v)

\* the default case returning the value as the number case does
evalDefaultReturns(v) == Value(v)

\* `default: panic(cannot eval)`, reached by the values that are no seq
evalDefault(v) == PanicAbout(CannotEval, pr(v))

\* the quote case returning eval(e, quotee)
afterQuoteEvaluates(quotee, path) == Eval(quotee, path \o <<2>>)

\* `case "quote"`: the quotee is returned as it is
afterQuote(quotee, path) == Ret(quotee)

\* the branch of `if` chosen for the value of the condition: the position
\* of its form in the list
chosenBranch(c) == IF isTrue(c) THEN 3 ELSE 4

\* the argument put in front of the others
appendArgInFront(args, arg) == <<arg>> \o args

\* args = append(args, arg)
appendArg(args, arg) == Append(args, arg)

\* the forms eval treats as special: head is the symbol `if` or `quote`
IsSpecial(head, name) == head.t = "symbol" /\ head.name = name

evalVars == <<epc, form, ctl, stack, log, rets, calls, result>>
readVars == <<rpc, input, rd, printed, rd2>>
callVars == <<bpc, bname, bargs, bres>>
equalVars == <<qpc, eqA, eqOther, eqRes>>
vars == <<readVars, evalVars, callVars, equalVars>>

NoResult == Panic("")
NoRead == ReadErr(Nil, "")
Returned(path, v) == [path |-> path, v |-> v]
Called(path, f, args) == [path |-> path, f |-> f, args |-> args]

\* a panic unwinds every suspended call and ends the run
Die(p) ==
  /\ epc' = "done"
  /\ result' = p
  /\ ctl' = Halt
  /\ stack' = <<>>
  /\ UNCHANGED <<form, rets, calls>>

Entered == ctl.mode = "eval" /\ log' = Append(log, ctl.path)

\* eval of a boolean or a number
EvalSelf ==
  /\ Entered
  /\ ctl.v.t \in {"boolean", "number"}
  /\ ctl' = Ret(evalSelf(ctl.v).v)
  /\ rets' = Append(rets, Returned(ctl.path, ctl'.v))
  /\ UNCHANGED <<epc, form, stack, calls, result>>

\* eval of a symbol
EvalSymbol ==
  /\ Entered
  /\ ctl.v.t = "symbol"
  /\ LET r == evalSymbol(ctl.v) IN
     IF r.k = "panic" THEN Die(r)
     ELSE /\ ctl' = Ret(r.v)
          /\ rets' = Append(rets, Returned(ctl.path, r.v))
          /\ UNCHANGED <<epc, form, stack, calls, result>>

\* eval of a value that is none of boolean, number, symbol, seq
EvalDefault ==
  /\ Entered
  /\ ctl.v.t \notin {"boolean", "number", "symbol"}
  /\ ~IsSeq(ctl.v)
  /\ LET r == evalDefault(ctl.v) IN
     IF r.k = "panic" THEN Die(r)
     ELSE /\ ctl' = Ret(r.v)
          /\ rets' = Append(rets, Returned(ctl.path, r.v))
          /\ UNCHANGED <<epc, form, stack, calls, result>>

\* eval of the empty list: `head := v.first()` panics
EvalEmpty ==
  /\ Entered
  /\ IsSeq(ctl.v)
  /\ first(ctl.v).k = "panic"
  /\ Die(first(ctl.v))

\* eval of (if ...): get3, then eval(e, cond)
EvalIf ==
  /\ Entered
  /\ IsSeq(ctl.v)
  /\ first(ctl.v).k = "value"
  /\ IsSpecial(first(ctl.v).v, ifName)
  /\ LET g == get3(rest(ctl.v).v) IN
     IF g.k = "panic" THEN Die(g)
     ELSE /\ stack' = Append(stack, IfCondFrame(ctl.path, g.v[2], g.v[3]))
          /\ ctl' = Eval(g.v[1], ctl.path \o <<2>>)
          /\ UNCHANGED <<epc, form, rets, calls, result>>

\* eval of (quote ...): get1, and the quotee is the result
EvalQuote ==
  /\ Entered
  /\ IsSeq(ctl.v)
  /\ first(ctl.v).k = "value"
  /\ IsSpecial(first(ctl.v).v, quoteName)
  /\ LET g == get1(rest(ctl.v).v) IN
     IF g.k = "panic" THEN Die(g)
     ELSE /\ ctl' = afterQuote(g.v, ctl.path)
          /\ rets' = Append(rets, Returned(ctl.path, g.v))
          /\ UNCHANGED <<epc, form, stack, calls, result>>

\* eval of any other list: evalApplication(e, head, v.rest()), which starts
\* with eval(e, fform)
EvalApply ==
  /\ Entered
  /\ IsSeq(ctl.v)
  /\ first(ctl.v).k = "value"
  /\ ~IsSpecial(first(ctl.v).v, ifName)
  /\ ~IsSpecial(first(ctl.v).v, quoteName)
  /\ stack' = Append(stack, AppHeadFrame(ctl.path, rest(ctl.v).v))
  /\ ctl' = Eval(first(ctl.v).v, ctl.path \o <<1>>)
  /\ UNCHANGED <<epc, form, rets, calls, result>>

Top == stack[Len(stack)]
Pop == SubSeq(stack, 1, Len(stack) - 1)
Returning == ctl.mode = "ret" /\ stack # <<>>

\* eval(e, cond) returned: the chosen branch is evaluated
RetIfCond ==
  /\ Returning
  /\ Top.k = "ifCond"
  /\ LET b == chosenBranch(ctl.v) IN
     /\ ctl' = Eval(IF b = 3 THEN Top.cons ELSE Top.alt, Top.path \o <<b>>)
     /\ stack' = Append(Pop, IfBranchFrame(Top.path))
  /\ UNCHANGED <<epc, form, log, rets, calls, result>>

\* the chosen branch returned: its value is the value of the `if` form
RetIfBranch ==
  /\ Returning
  /\ Top.k = "ifBranch"
  /\ stack' = Pop
  /\ rets' = Append(rets, Returned(Top.path, ctl.v))
  /\ UNCHANGED <<epc, form, ctl, log, calls, result>>

\* the loop of evalApplication from its test on: the next argument form is
\* evaluated, or f is called when none is left
ArgLoop(path, f, args, argForms, i) ==
  IF argForms.t # "empty"
  THEN /\ stack' = Append(Pop, AppArgFrame(path, f, args, argForms, i))
       /\ ctl' = Eval(first(argForms).v, path \o <<i>>)
       /\ UNCHANGED <<epc, form, rets, calls, result>>
  ELSE LET r == call(f, args) IN
       /\ calls' = Append(calls, Called(path, f, args))
       /\ IF r.k = "panic"
          THEN /\ epc' = "done"
               /\ result' = r
               /\ ctl' = Halt
               /\ stack' = <<>>
               /\ UNCHANGED <<form, rets>>
          ELSE /\ stack' = Pop
               /\ ctl' = Ret(r.v)
               /\ rets' = Append(rets, Returned(path, r.v))
               /\ UNCHANGED <<epc, form, result>>

\* eval(e, fform) returned: it must be a function, then the arguments
RetAppHead ==
  /\ Returning
  /\ Top.k = "appHead"
  /\ UNCHANGED log
  /\ IF ~IsFunction(ctl.v)
     THEN Die(PanicAbout(NotAFunction, pr(ctl.v)))
     ELSE ArgLoop(Top.path, ctl.v, <<>>, Top.argForms, 2)

\* eval(e, argForm) returned: the value is appended, the loop goes on
RetAppArg ==
  /\ Returning
  /\ Top.k = "appArg"
  /\ UNCHANGED log
  /\ ArgLoop(Top.path, Top.f, appendArg(Top.args, ctl.v),
             rest(Top.argForms).v, Top.i + 1)

\* the outermost eval returned
Finish ==
  /\ epc = "run"
  /\ ctl.mode = "ret"
  /\ stack = <<>>
  /\ epc' = "done"
  /\ result' = Value(ctl.v)
  /\ ctl' = Halt
  /\ UNCHANGED <<form, stack, log, rets, calls>>

\* ------------------------------------------------------ the evaluator run
RECURSIVE List(_)
\* the list the reader builds for the elements s
List(s) == IF s = <<>> THEN empty ELSE cons(Head(s), List(Tail(s)))

SeqsUpTo(S, n) == UNION {[1..k -> S] : k \in 0..n}

\* a symbol the environment does not bind
xName == <<"x">>
If == symbol(ifName)
Quote == symbol(quoteName)
Plus == symbol(plusName)
Mul == symbol(mulName)
One == symbol(oneName)
X == symbol(xName)
True == boolean(TRUE)
False == boolean(FALSE)

\* the forms main gives to evalTest, as read builds them
MainForms ==
  { number(123), True, False,
    List(<<If, False, number(1), number(2)>>),
    List(<<If, number(123), number(1), number(2)>>),
    List(<<If, number(123), List(<<Quote, symbol(<<"t", "r", "u", "e">>)>>),
           List(<<Quote, symbol(<<"f", "a", "l", "s", "e">>)>>)>>),
    One, Plus,
    List(<<Plus, number(1), number(2), number(3)>>),
    List(<<Mul, number(3), number(4)>>),
    List(<<List(<<If, True, Plus, Mul>>), number(3), number(4)>>),
    List(<<List(<<If, False, Plus, Mul>>), number(3), number(4)>>) }

\* heads and operands of the generated list forms
Heads ==
  { If, Quote, Plus, Mul, X, number(0), empty,
    List(<<If, False, Plus, Mul>>) }
Operands ==
  { False, number(0), X, Plus, List(<<Quote, List(<<X>>)>>) }
GeneratedForms ==
  { List(<<h>> \o ops) : h \in Heads, ops \in SeqsUpTo(Operands, MaxOperands) }

\* `if` forms over conditions of every kind of value, with branches that
\* return, panic or are lists themselves
CondForms ==
  { True, False, number(0), One, Plus, X,
    List(<<Quote, X>>), List(<<Quote, empty>>), List(<<Quote, False>>),
    List(<<Quote, List(<<number(0)>>)>>),
    List(<<If, number(0), False, X>>), List(<<Mul>>), List(<<Plus, False>>) }
BranchForms ==
  { number(7), X, List(<<Plus, One, number(2)>>), List(<<If, False, X, Mul>>),
    List(<<Quote, List(<<Plus, X>>)>>) }
IfForms ==
  { List(<<If, c, a, b>>) : c \in CondForms, a \in BranchForms, b \in BranchForms }

\* applications with arguments that are applications, and values that are
\* not forms the reader builds: a builtin as the form, as a head, as an
\* argument
OtherForms ==
  { empty, X, number(MaxInt64), builtin(plusName), builtin(mulName),
    List(<<builtin(plusName), number(1)>>),
    List(<<Plus, number(1), builtin(mulName)>>),
    List(<<Plus, List(<<Mul, number(2), number(3)>>),
           List(<<Plus, number(1), One>>), number(4)>>),
    List(<<Plus, List(<<Mul, number(2), X>>), List(<<Plus, number(1), One>>)>>),
    List(<<Mul, number(MaxInt64), number(2), List(<<Plus, number(MaxInt64), One>>)>>),
    List(<<One, X, number(1)>>),
    List(<<List(<<Quote, Plus>>), number(1)>>),
    List(<<List(<<If, True, Plus, Mul>>), List(<<If, False, One, number(5)>>), One>>),
    List(<<Quote, List(<<If, X>>), X>>) }

Forms == MainForms \cup GeneratedForms \cup IfForms \cup OtherForms

\* vresult := eval(globalEnv(e), vinput)
EvalInit ==
  /\ epc = "run"
  /\ form \in Forms
  /\ ctl = Eval(form, <<>>)
  /\ stack = <<>>
  /\ log = <<>>
  /\ rets = <<>>
  /\ calls = <<>>
  /\ result = NoResult
  \* the parts of the state this run does not use
  /\ rpc = "idle" /\ input = <<>> /\ rd = NoRead /\ printed = <<>> /\ rd2 = NoRead
  /\ bpc = "idle" /\ bname = <<>> /\ bargs = <<>> /\ bres = NoResult
  /\ qpc = "idle" /\ eqA = Nil /\ eqOther = Nil /\ eqRes = NoResult

EvalNext ==
  \/ EvalSelf /\ UNCHANGED <<readVars, callVars, equalVars>>
  \/ EvalSymbol /\ UNCHANGED <<readVars, callVars, equalVars>>
  \/ EvalDefault /\ UNCHANGED <<readVars, callVars, equalVars>>
  \/ EvalEmpty /\ UNCHANGED <<readVars, callVars, equalVars>>
  \/ EvalIf /\ UNCHANGED <<readVars, callVars, equalVars>>
  \/ EvalQuote /\ UNCHANGED <<readVars, callVars, equalVars>>
  \/ EvalApply /\ UNCHANGED <<readVars, callVars, equalVars>>
  \/ RetIfCond /\ UNCHANGED <<readVars, callVars, equalVars>>
  \/ RetIfBranch /\ UNCHANGED <<readVars, callVars, equalVars>>
  \/ RetAppHead /\ UNCHANGED <<readVars, callVars, equalVars>>
  \/ RetAppArg /\ UNCHANGED <<readVars, callVars, equalVars>>
  \/ Finish /\ UNCHANGED <<readVars, callVars, equalVars>>

\* --------------------------------------------------- a builtin called directly
\* argument values: numbers at and near the ends of the int64 range, and
\* values of the other types
ArgValues ==
  { number(MinInt64), number(0 - 1), number(0), number(1), number(2), number(3),
    number(MaxInt64), False, X, empty, builtin(plusName) }

CallInit ==
  /\ bpc = "start"
  /\ bname = <<>>
  /\ bargs \in SeqsUpTo(ArgValues, MaxArgs)
  /\ bres = NoResult
  \* the parts of the state this run does not use
  /\ rpc = "idle" /\ input = <<>> /\ rd = NoRead /\ printed = <<>> /\ rd2 = NoRead
  /\ epc = "idle" /\ form = Nil /\ ctl = Halt /\ stack = <<>>
  /\ log = <<>> /\ rets = <<>> /\ calls = <<>> /\ result = NoResult
  /\ qpc = "idle" /\ eqA = Nil /\ eqOther = Nil /\ eqRes = NoResult

\* builtin{name: "+", f: builtinPlus}.call(args)
CallPlus ==
  /\ bpc = "start"
  /\ bname' = plusName
  /\ bres' = call(builtin(plusName), bargs)
  /\ bpc' = "done"
  /\ UNCHANGED bargs

\* builtin{name: "*", f: builtinMul}.call(args)
CallMul ==
  /\ bpc = "start"
  /\ bname' = mulName
  /\ bres' = call(builtin(mulName), bargs)
  /\ bpc' = "done"
  /\ UNCHANGED bargs

CallNext ==
  \/ CallPlus /\ UNCHANGED <<readVars, evalVars, equalVars>>
  \/ CallMul /\ UNCHANGED <<readVars, evalVars, equalVars>>

\* ------------------------------------------------------------ a comparison
\* values of every variant, lists of them, and lists holding functions
EqualValues ==
  { number(0), number(1), True, False, X, One, empty,
    builtin(plusName), builtin(mulName),
    List(<<number(1)>>), List(<<number(1), number(2)>>),
    List(<<number(1), number(3)>>), List(<<X, empty>>),
    List(<<X, List(<<True>>)>>), List(<<X, List(<<False>>)>>),
    List(<<builtin(plusName)>>), List(<<number(1), builtin(plusName)>>),
    List(<<number(2), builtin(plusName)>>), List(<<builtin(mulName), number(1)>>) }

EqualInit ==
  /\ qpc = "start"
  /\ eqA \in EqualValues
  /\ eqOther \in EqualValues
  /\ eqRes = NoResult
  \* the parts of the state this run does not use
  /\ rpc = "idle" /\ input = <<>> /\ rd = NoRead /\ printed = <<>> /\ rd2 = NoRead
  /\ epc = "idle" /\ form = Nil /\ ctl = Halt /\ stack = <<>>
  /\ log = <<>> /\ rets = <<>> /\ calls = <<>> /\ result = NoResult
  /\ bpc = "idle" /\ bname = <<>> /\ bargs = <<>> /\ bres = NoResult

\* a.equal(other)
DoEqual ==
  /\ qpc = "start"
  /\ eqRes' = equal(eqA, eqOther)
  /\ qpc' = "done"
  /\ UNCHANGED <<eqA, eqOther>>

EqualNext == DoEqual /\ UNCHANGED <<readVars, evalVars, callVars>>

\* ------------------------------------------------------------ the reader run
\* the characters the generated texts are made of
Alphabet == {"(", ")", " ", "#", "t", "f", "1", "0", "-"}

\* every text of exactly n characters of Alphabet
Texts(n) == [1..n -> Alphabet]

\* the texts main gives to readTest
MainTexts ==
  { <<" ", " ", "1", "2", "3", " ", " ">>,
    <<"1", "-", "2">>,
    <<" ", " ", "#", "t">>,
    <<" ", " ", "#", "f">>,
    <<" ", " ", "1", "2", "(", " ", " ">>,
    <<" ", " ", "(", "+", " ", "1", " ", "2", " ", "(", ")", " ", ")">>,
    <<"(", "i", "f", " ", "#", "f", " ", "1", " ", "2", ")">> }

\* texts that end inside an open list
OpenListTexts ==
  { <<"(">>,
    <<"(", "1", " ", "2">>,
    <<"(", "1", " ", "(", "2", ")", " ", " ">> }

\* texts with numbers at and beyond the ends of the int64 range
RangeTexts ==
  { FormatInt(MaxInt64), FormatInt(MaxInt64 + 1),
    FormatInt(MinInt64), FormatInt(MinInt64 - 1),
    <<"(">> \o FormatInt(MinInt64) \o <<" ", "+", "0", "1", " ", "-", "0", ")">> }

GivenTexts == MainTexts \cup OpenListTexts \cup RangeTexts

ReadInit ==
  /\ rpc = "start"
  /\ \/ \E n \in 0..MaxLen : input \in Texts(n)
     \/ input \in GivenTexts
  /\ rd = NoRead
  /\ printed = <<>>
  /\ rd2 = NoRead
  \* the parts of the state this run does not use
  /\ epc = "idle" /\ form = Nil /\ ctl = Halt /\ stack = <<>>
  /\ log = <<>> /\ rets = <<>> /\ calls = <<>> /\ result = NoResult
  /\ bpc = "idle" /\ bname = <<>> /\ bargs = <<>> /\ bres = NoResult
  /\ qpc = "idle" /\ eqA = Nil /\ eqOther = Nil /\ eqRes = NoResult

\* v, err := read(s)
DoRead ==
  /\ rpc = "start"
  /\ rd' = Read(input)
  /\ rpc' = "read"
  /\ UNCHANGED <<input, printed, rd2>>

\* v.pr(), when read gave a value
DoPrint ==
  /\ rpc = "read"
  /\ rd.k = "value"
  /\ printed' = pr(rd.v)
  /\ rpc' = "printed"
  /\ UNCHANGED <<input, rd, rd2>>

\* read(v.pr())
DoReread ==
  /\ rpc = "printed"
  /\ rd2' = Read(printed)
  /\ rpc' = "reread"
  /\ UNCHANGED <<input, rd, printed>>

ReadNext ==
  \/ DoRead /\ UNCHANGED <<evalVars, callVars, equalVars>>
  \/ DoPrint /\ UNCHANGED <<evalVars, callVars, equalVars>>
  \/ DoReread /\ UNCHANGED <<evalVars, callVars, equalVars>>

ReadSpec == ReadInit /\ [][ReadNext]_vars

EvalSpec == EvalInit /\ [][EvalNext]_vars

\* eval runs to its end: a Go call that can take a step takes it
EvalLive == EvalSpec /\ WF_vars(EvalNext)

CallSpec == CallInit /\ [][CallNext]_vars

EqualSpec == EqualInit /\ [][EqualNext]_vars

\* ------------------------------------------------------------ vocabulary
RECURSIVE Length(_)
Length(s) == IF s.t = "empty" THEN 0 ELSE 1 + Length(s.cdr)

RECURSIVE Nth(_, _)
Nth(s, i) == IF i = 1 THEN s.car ELSE Nth(s.cdr, i - 1)

RECURSIVE Sub(_, _)
\* the form at `path` in v: path[1] is the position in v, and so on
Sub(v, path) == IF path = <<>> THEN v ELSE Sub(Nth(v, Head(path)), Tail(path))

IsPrefix(p, q) == Len(p) <= Len(q) /\ SubSeq(q, 1, Len(p)) = p
InLog(p) == \E i \in 1..Len(log) : log[i] = p
Pos(p) == CHOOSE i \in 1..Len(log) : log[i] = p
HasRet(p) == \E j \in 1..Len(rets) : rets[j].path = p
RetOf(p) == rets[CHOOSE j \in 1..Len(rets) : rets[j].path = p].v
CallsOf(p) == {j \in 1..Len(calls) : calls[j].path = p}

IsIfForm(f) == f.t = "cons" /\ IsSpecial(f.car, ifName)
IsQuoteForm(f) == f.t = "cons" /\ IsSpecial(f.car, quoteName)
IsApplication(f) == f.t = "cons" /\ ~IsIfForm(f) /\ ~IsQuoteForm(f)

RECURSIVE StripSpace(_)
StripSpace(s) ==
  IF s # <<>> /\ IsSpace(Head(s)) THEN StripSpace(Tail(s)) ELSE s

\* Number, Boolean, Symbol, Sequence or Function
Variant(v) == IF IsSeq(v) THEN "sequence" ELSE v.t

\* ------------------------------------------------------------------ claims

\* C1: read returns a value or a read error for every text and never
\* panics; for a text that ends inside an open list it returns the
\* UnexpectedEndOfInput error.
C1_ReadNeverPanics ==
  rpc # "start" =>
    /\ rd.k \in {"value", "error"}
    /\ input \in OpenListTexts => rd.k = "error" /\ rd.err = UnexpectedEndOfInput

\* C2: for every value v that read returns, read(print(v)) succeeds and
\* returns a value structurally equal to v.
C2_RoundTrip ==
  rpc = "reread" =>
    /\ rd2.k = "value"
    /\ equal(rd.v, rd2.v).k = "value"
    /\ equal(rd.v, rd2.v).v = TRUE
    /\ rd2.v = rd.v

C2_Witness ==
  /\ rpc = "reread"
  /\ rd.v = List(<<Plus, number(1), number(2), empty>>)
  /\ printed = <<"(", "+", " ", "1", " ", "2", " ", "(", ")", ")">>
  /\ rd2.v = rd.v

\* C3: in every evaluated (if c a b), c is evaluated first; when its value
\* is not Boolean(false) the result is that of a and no part of b is
\* evaluated; when it is Boolean(false) the result is that of b and no part
\* of a is evaluated.
C3_IfShortCircuit ==
  epc = "done" =>
    \A i \in 1..Len(log) :
      LET p == log[i]
          f == Sub(form, p)
      IN  (IsIfForm(f) /\ Length(f.cdr) = 3) =>
            /\ i < Len(log)
            /\ log[i + 1] = p \o <<2>>
            /\ HasRet(p \o <<2>>) =>
                 LET chosen == IF RetOf(p \o <<2>>) = False THEN 4 ELSE 3
                     other == 7 - chosen
                 IN  /\ InLog(p \o <<chosen>>)
                     /\ \A j \in 1..Len(log) : ~IsPrefix(p \o <<other>>, log[j])
                     /\ HasRet(p) <=> HasRet(p \o <<chosen>>)
                     /\ HasRet(p) => RetOf(p) = RetOf(p \o <<chosen>>)
                     /\ p = <<>> => (result.k = "value" <=> HasRet(p))
                     /\ (p = <<>> /\ HasRet(p)) => result.v = RetOf(p)

C3_Witness ==
  /\ epc = "done"
  /\ form = List(<<If, number(0), number(7), X>>)
  /\ log = << <<>>, <<2>>, <<3>> >>
  /\ result = Value(number(7))

\* C4: an `if` form with other than 3 operands and a `quote` form with
\* other than 1 operand fail with WrongArity, never with another error.
C4_WrongArity ==
  (/\ epc = "done"
   /\ \/ IsIfForm(form) /\ Length(form.cdr) # 3
      \/ IsQuoteForm(form) /\ Length(form.cdr) # 1)
  => result.k = "panic" /\ result.msg = WrongArity

\* C5 as stated: eval of a form that is a Function value returns it
\* unchanged.
C5_FunctionSelfEvaluates ==
  (epc = "done" /\ IsFunction(form)) => result = Value(form)

\* C5 as amended: eval of a form that is a Function value is fatal: it
\* panics with "cannot eval" naming the function, evaluates nothing else
\* and returns no value.
C5_FunctionCannotEval ==
  (epc = "done" /\ IsFunction(form)) =>
    /\ result = PanicAbout(CannotEval, pr(form))
    /\ log = << <<>> >>
    /\ rets = <<>>
    /\ calls = <<>>

C5_Witness == epc = "done" /\ form = builtin(plusName) /\ result.k = "panic"

\* C6: a comparison of two values of different variants returns false, in
\* either order, a Function being the receiver or the argument.
C6_CrossVariantFalse ==
  (qpc = "done" /\ Variant(eqA) # Variant(eqOther)) =>
    eqRes.k = "value" /\ eqRes.v = FALSE

\* C7: for arguments that are all Numbers, `+` returns their sum and `*`
\* their product as int64 (0 and 1 for no arguments); otherwise the call
\* panics with the TypeMismatch message naming the first argument, in list
\* order, that is not a Number.
RECURSIVE RingSum(_)
\* the sum of the arguments in the integers modulo 2^IntBits
RingSum(args) ==
  IF args = <<>> THEN 0
  ELSE ((Head(args).i % Pow2(IntBits)) + RingSum(Tail(args))) % Pow2(IntBits)

RECURSIVE RingProduct(_)
RingProduct(args) ==
  IF args = <<>> THEN 1 % Pow2(IntBits)
  ELSE ((Head(args).i % Pow2(IntBits)) * RingProduct(Tail(args))) % Pow2(IntBits)

\* the int64 that stands for the residue r
Signed(r) == IF r > MaxInt64 THEN r - Pow2(IntBits) ELSE r

C7_Builtins ==
  bpc = "done" =>
    LET bad == {j \in 1..Len(bargs) : bargs[j].t # "number"} IN
    IF bad = {}
    THEN /\ bres.k = "value"
         /\ bres.v = number(Signed(IF bname = plusName THEN RingSum(bargs)
                                                        ELSE RingProduct(bargs)))
    ELSE LET j == CHOOSE j \in bad : \A l \in bad : j <= l IN
         /\ bres.k = "panic"
         /\ bres.msg = IF bname = plusName THEN TypeMismatchAdd ELSE TypeMismatchMul
         /\ bres.about = pr(bargs[j])

C7_Witness ==
  /\ bpc = "done"
  /\ bname = mulName
  /\ bargs = <<number(MaxInt64), number(2)>>
  /\ bres = Value(number(0 - 2))

\* C8 as stated: at a `#`, read yields Boolean(true) for a following `t`,
\* Boolean(false) for `f`, and fails with InvalidBooleanLiteral otherwise,
\* the end of the text right after `#` included.
C8_HashEndIsNoBoolean ==
  LET b == StripSpace(input) IN
  (rpc # "start" /\ b # <<>> /\ Head(b) = "#") =>
    IF Len(b) >= 2 /\ b[2] = "t" THEN rd.k = "value" /\ rd.v = True
    ELSE IF Len(b) >= 2 /\ b[2] = "f" THEN rd.k = "value" /\ rd.v = False
    ELSE rd.k = "error" /\ rd.err = InvalidBooleanLiteral

\* C8 as amended: ... and fails otherwise: with InvalidBooleanLiteral when
\* another character follows, with UnexpectedEndOfInput when the text ends
\* right after `#`.
C8_HashEndIsEOS ==
  LET b == StripSpace(input) IN
  (rpc # "start" /\ b # <<>> /\ Head(b) = "#") =>
    IF Len(b) >= 2 /\ b[2] = "t" THEN rd.k = "value" /\ rd.v = True
    ELSE IF Len(b) >= 2 /\ b[2] = "f" THEN rd.k = "value" /\ rd.v = False
    ELSE IF Len(b) >= 2 THEN rd.k = "error" /\ rd.err = InvalidBooleanLiteral
    ELSE rd.k = "error" /\ rd.err = UnexpectedEndOfInput

C8_Witness ==
  /\ rpc = "read"
  /\ input = <<" ", " ", "#">>
  /\ rd.k = "error"
  /\ rd.err = UnexpectedEndOfInput

\* C9: in every evaluated application the head is evaluated first; a head
\* value that is no Function fails with NotAFunction and no operand is
\* evaluated; otherwise the operands are evaluated left to right, each once,
\* none after the first that is fatal, and the function is called once, with
\* the operand values in the order of the forms.
C9_ApplicationOrder ==
  epc = "done" =>
    \A i \in 1..Len(log) :
      LET p == log[i]
          f == Sub(form, p)
          n == Length(f)
          done == {k \in 2..n : InLog(p \o <<k>>)}
          head == p \o <<1>>
      IN  IsApplication(f) =>
            /\ i < Len(log)
            /\ log[i + 1] = head
            /\ ~HasRet(head) => done = {} /\ CallsOf(p) = {}
            /\ (HasRet(head) /\ ~IsFunction(RetOf(head))) =>
                 /\ done = {}
                 /\ CallsOf(p) = {}
                 /\ result.k = "panic"
                 /\ result.msg = NotAFunction
            /\ (HasRet(head) /\ IsFunction(RetOf(head))) =>
                 /\ \A k \in done : \A j \in 2..k : j \in done
                 /\ \A j, k \in done : j < k => Pos(p \o <<j>>) < Pos(p \o <<k>>)
                 /\ \A k \in done :
                      Cardinality({m \in 1..Len(log) : log[m] = p \o <<k>>}) = 1
                 /\ \A k \in done : ~HasRet(p \o <<k>>) => (k + 1) \notin done
                 /\ \A k \in done : (HasRet(p \o <<k>>) /\ k < n) => (k + 1) \in done
                 /\ 2 <= n => 2 \in done
                 /\ IF \A k \in 2..n : HasRet(p \o <<k>>)
                    THEN /\ Cardinality(CallsOf(p)) = 1
                         /\ \A c \in CallsOf(p) :
                              /\ calls[c].f = RetOf(head)
                              /\ calls[c].args = [k \in 1..(n - 1) |-> RetOf(p \o <<k + 1>>)]
                    ELSE CallsOf(p) = {}

C9_Witness ==
  /\ epc = "done"
  /\ form = List(<<List(<<If, True, Plus, Mul>>), number(3), number(4)>>)
  /\ log = << <<>>, <<1>>, <<1, 2>>, <<1, 3>>, <<2>>, <<3>> >>
  /\ calls = <<Called(<<>>, builtin(plusName), <<number(3), number(4)>>)>>
  /\ result = Value(number(7))

\* C10: every eval of a form ends, with a value or a panic, and no form is
\* evaluated twice: not the value a symbol was looked up to, and no part of
\* a quoted form.
NoReevaluation ==
  /\ \A i, j \in 1..Len(log) : i # j => log[i] # log[j]
  /\ \A i, j \in 1..Len(log) :
       (IsQuoteForm(Sub(form, log[i])) /\ i # j) => ~IsPrefix(log[i], log[j])

C10_EvalTerminates == [](NoReevaluation) /\ <>(epc = "done")

C10_Witness ==
  /\ epc = "done"
  /\ form = List(<<If, One, List(<<Quote, List(<<Plus, X>>)>>), X>>)
  /\ log = << <<>>, <<2>>, <<3>> >>
  /\ result = Value(List(<<Plus, X>>))
====
